---- MODULE Spec2Model ----
(***************************************************************************)
(* Model of cacheback.base.Job (src/cacheback/base.py): a read-through     *)
(* cache whose entries carry an expiry and a status, refreshed either      *)
(* synchronously in the caller or by a dispatched background task.         *)
(*                                                                         *)
(* A store entry is the tuple cache_set writes, kept positionally as       *)
(* <<item[0], item[1], item[2]>> (1-based here): cache_set stores          *)
(* (expiry, status, data).  Python's None is the string "None".            *)
(***************************************************************************)
EXTENDS Integers, Sequences, FiniteSets, TLC

\* ---------------------------------------------------------------- bounds
MaxTime == 780
MaxPending == 2

\* ------------------------------------------------------ program constants
lifetime == 600
refresh_timeout == 60

\* ------------------------------------------------------------ value sets
Keys == {"a"}
Payloads == {"v1", "v2"}
None == "None"
FRESH == "FRESH"
QUEUED == "QUEUED"
RAISE == "RAISE"
NoItem == << >>
NoReturn == "<raised>"

\* what fetch() can do in a call: return a payload, return None, or raise
FetchOutcomes == Payloads \cup {None, RAISE}
\* what tasks.refresh_cache.apply_async can do: enqueue the task or raise
DispatchOutcomes == {"sent", RAISE}
\* what cache.set can do: persist the tuple, lose the write leaving the old
\* item, or lose the write and the old item with it
WriteOutcomes == {"stored", "lost", "evicted"}
\* the steps by which the clock (time.time()) is observed to advance
TickSteps == {60, 600}
\* the values a job subclass gives fetch_on_stale_threshold: None is {}
ThresholdChoices == {{}, {660}}
\* the threads that may be inside Job.get at once
Callers == {"c1", "c2"}

VARIABLES
    store,                    \* self.cache (base.py:71): key -> item, or NoItem
    pending,                  \* tasks apply_async queued (base.py:227), per key
    now,                      \* time.time() (base.py:119, 279, 285)
    fetch_on_miss,            \* Job.fetch_on_miss (base.py:59)
    fetch_on_stale_threshold, \* Job.fetch_on_stale_threshold (base.py:64)
    verify_cache_write,       \* settings.CACHEBACK_VERIFY_CACHE_WRITE (base.py:198)
    last,                     \* the last call: what it was and what it did
    deleted,                  \* per key: "deleted" since delete returned and no
                              \* get, invalidate or refresh was called on it;
                              \* "refreshed" once a task ran on it after that
    window,                   \* per key: {} or {t + refresh_timeout} for the
                              \* last get at t that wrote the timeout tuple
    keyed,                    \* the last two calls of Job.key (base.py:313)
    callers                   \* per thread in Job.get: where it is and the
                              \* item it read (base.py:89)
                              \* and dispatched, while the item was not removed
                              \* and the time t + refresh_timeout has not passed

vars == <<store, pending, now, fetch_on_miss, fetch_on_stale_threshold,
          verify_cache_write, last, deleted, window, keyed, callers>>

config == <<fetch_on_miss, fetch_on_stale_threshold, verify_cache_write>>

\* ------------------------------------------------------------- helpers

\* Job.empty
empty == None

\* mutant of expiry: the refresh timeout taken for the lifetime
expiry_as_timeout(t) == t + refresh_timeout

\* Job.expiry
expiry(t) == t + lifetime

\* mutant of timeout: the refresh timeout is not added to the time
timeout_is_now(t) == t

\* Job.timeout
timeout(t) == t + refresh_timeout

\* Job.should_missing_item_be_fetched_synchronously
should_missing_item_be_fetched_synchronously == fetch_on_miss

\* Job.should_stale_item_be_fetched_synchronously
should_stale_item_be_fetched_synchronously(delta) ==
    IF fetch_on_stale_threshold = {}
    THEN FALSE
    ELSE \E T \in fetch_on_stale_threshold : delta > T - lifetime

\* the hooks got_miss / got_hit / got_stale: identity on the fetched value
got_miss(fetched) == fetched
got_hit(fetched) == fetched
got_stale(fetched) == fetched

\* self.cache.set(key, (expiry, status, data), cache_ttl) under outcome w
cache_store(st, key, item, w) ==
    IF w = "stored" THEN [st EXCEPT ![key] = item]
    ELSE IF w = "lost" THEN st
    ELSE [st EXCEPT ![key] = NoItem]

\* self.cache.get(key, (None, None, None)) of the write verification
cache_read_default(st, key) ==
    IF st[key] = NoItem THEN <<None, None, None>> ELSE st[key]

\* Every operation below is the set of ways a call can go, one element for
\* each outcome of the fetch, the dispatch and the store writes it reaches:
\* [store, pending, raised, ret, events], events being the calls it made on
\* the store, on fetch and on the task queue, in order: <<"fetch", <<result>>>>,
\* <<"cache_set", tuple>> (or "cache_set_lost" when the store lost the write),
\* <<"apply_async", <<>>>>, and so on.

\* Job.cache_set(key, expiry, status, data): the parameters in the order of
\* the signature; the stored tuple is (expiry, status, data)
cache_set(st, key, exp, status, data) ==
    { LET st2 == cache_store(st, key, <<exp, status, data>>, w)
          cached_data == cache_read_default(st2, key)[3]
      IN  [store  |-> st2,
           raised |-> verify_cache_write /\ data # None /\ cached_data = None,
           events |-> << <<IF w = "stored" THEN "cache_set"
                                            ELSE "cache_set_lost",
                             <<exp, status, data>>>> >>]
      : w \in WriteOutcomes }

\* mutant of refresh: the old item is dropped before fetch is called, so a
\* fetch that raises leaves the key without its item
refresh_clears_first(st, key, t) ==
    { [store |-> [st EXCEPT ![key] = NoItem], raised |-> TRUE,
       ret |-> NoReturn, events |-> << <<"fetch_raise", << >>>> >>] }
    \cup
    UNION { { [store |-> cs.store, raised |-> cs.raised,
               ret |-> IF cs.raised THEN NoReturn ELSE result,
               events |-> << <<"fetch", <<result>>>> >> \o cs.events]
              : cs \in cache_set(st, key, expiry(t), FRESH, result) }
            : result \in FetchOutcomes \ {RAISE} }

\* mutant of refresh: the result is written only over an item the store
\* still holds, so a key without item stays without
refresh_only_replaces(st, key, t) ==
    { [store |-> st, raised |-> TRUE, ret |-> NoReturn,
       events |-> << <<"fetch_raise", << >>>> >>] }
    \cup
    UNION { { [store |-> IF st[key] = NoItem THEN st ELSE cs.store,
               raised |-> cs.raised,
               ret |-> IF cs.raised THEN NoReturn ELSE result,
               events |-> << <<"fetch", <<result>>>> >> \o cs.events]
              : cs \in cache_set(st, key, expiry(t), FRESH, result) }
            : result \in FetchOutcomes \ {RAISE} }

\* Job.refresh: fetch, then cache_set(key, expiry, 'FRESH', result)
refresh(st, key, t) ==
    { [store |-> st, raised |-> TRUE, ret |-> NoReturn,
       events |-> << <<"fetch_raise", << >>>> >>] }
    \cup
    UNION { { [store |-> cs.store, raised |-> cs.raised,
               ret |-> IF cs.raised THEN NoReturn ELSE result,
               events |-> << <<"fetch", <<result>>>> >> \o cs.events]
              : cs \in cache_set(st, key, expiry(t), FRESH, result) }
            : result \in FetchOutcomes \ {RAISE} }

\* mutant of async_refresh: a dispatch that raises is logged and nothing
\* else is done
async_refresh_no_failover(st, pend, key, t) ==
    { [store |-> st, pending |-> [pend EXCEPT ![key] = @ + 1],
       events |-> << <<"apply_async", << >>>> >>],
      [store |-> st, pending |-> pend,
       events |-> << <<"apply_async_raise", << >>>> >>] }

\* Job.async_refresh: apply_async; on any exception one synchronous refresh
\* whose own exception is logged and swallowed
async_refresh(st, pend, key, t) ==
    { [store |-> st, pending |-> [pend EXCEPT ![key] = @ + 1],
       events |-> << <<"apply_async", << >>>> >>] }
    \cup
    { [store |-> r.store, pending |-> pend,
       events |-> << <<"apply_async_raise", << >>>> >> \o r.events]
      : r \in refresh(st, key, t) }

\* mutant of set_then_dispatch: the task is dispatched first and the item
\* written after it
set_then_dispatch_dispatch_first(st, pend, key, t, status, data, value) ==
    UNION { UNION { IF cs.raised
                    THEN { [store |-> cs.store, pending |-> ar.pending,
                            raised |-> TRUE, ret |-> NoReturn,
                            events |-> ar.events \o cs.events] }
                    ELSE { [store |-> cs.store, pending |-> ar.pending,
                            raised |-> FALSE, ret |-> value,
                            events |-> ar.events \o cs.events] }
                    : cs \in cache_set(ar.store, key, timeout(t), status, data) }
            : ar \in async_refresh(st, pend, key, t) }

\* cache_set(key, timeout, status, data) followed by async_refresh, as get
\* and invalidate call them: an exception of cache_set ends the call
set_then_dispatch(st, pend, key, t, status, data, value) ==
    UNION { IF cs.raised
            THEN { [store |-> cs.store, pending |-> pend, raised |-> TRUE,
                    ret |-> NoReturn, events |-> cs.events] }
            ELSE { [store |-> ar.store, pending |-> ar.pending,
                    raised |-> FALSE, ret |-> value,
                    events |-> cs.events \o ar.events]
                   : ar \in async_refresh(cs.store, pend, key, t) }
            : cs \in cache_set(st, key, timeout(t), status, data) }

\* refresh as get calls it: its result goes through the hook
sync_refresh(st, pend, key, t) ==
    { [store |-> r.store, pending |-> pend, raised |-> r.raised,
       ret |-> r.ret, events |-> r.events]
      : r \in refresh(st, key, t) }

\* a set of outcomes, each marked with the branch of the call that gave it
Branch(name, outcomes) ==
    { [store |-> o.store, pending |-> o.pending, raised |-> o.raised,
       ret |-> o.ret, events |-> o.events, branch |-> name]
      : o \in outcomes }

\* Job.get, cache MISS (item is None)
get_miss(st, pend, key, t) ==
    IF should_missing_item_be_fetched_synchronously
    THEN Branch("MISS_SYNC", sync_refresh(st, pend, key, t))
    ELSE Branch("MISS_ASYNC",
                set_then_dispatch(st, pend, key, t, empty, QUEUED,
                                  got_miss(empty)))

\* Job.get, item found and stale (delta > 0): a synchronous refresh past
\* the stale threshold, otherwise the rewrite with the timeout and a dispatch
get_stale(item, st, pend, key, t) ==
    LET exp == item[1]
        data == item[2]
        status == item[3]
        delta == t - exp
    IN  IF should_stale_item_be_fetched_synchronously(delta)
        THEN Branch("STALE_SYNC", sync_refresh(st, pend, key, t))
        ELSE Branch("STALE_ASYNC",
                    set_then_dispatch(st, pend, key, t, data, QUEUED,
                                      got_stale(data)))

\* Job.get, item found and not stale: the cache HIT
get_hit(item, st, pend, key, t) ==
    LET exp == item[1]
        data == item[2]
        status == item[3]
    IN  Branch("HIT",
               { [store |-> st, pending |-> pend, raised |-> FALSE,
                  ret |-> got_hit(data), events |-> << >>] })

\* mutant of get_found: an item is taken for stale from its expiry on
get_found_stale_at_expiry(item, st, pend, key, t) ==
    IF t - item[1] >= 0
    THEN get_stale(item, st, pend, key, t)
    ELSE get_hit(item, st, pend, key, t)

\* mutant of get_found: an item get reads as QUEUED is never taken for stale
get_found_queued_never_stale(item, st, pend, key, t) ==
    IF t - item[1] > 0 /\ item[3] # QUEUED
    THEN get_stale(item, st, pend, key, t)
    ELSE get_hit(item, st, pend, key, t)

\* Job.get, item found: expiry, data, status = item; delta = time - expiry
get_found(item, st, pend, key, t) ==
    IF t - item[1] > 0
    THEN get_stale(item, st, pend, key, t)
    ELSE get_hit(item, st, pend, key, t)

\* mutant of get_after_read: the cache is read again before the branch is
\* taken, so a tuple another thread wrote meanwhile is seen
get_after_read_rereads(item, st, pend, key, t) ==
    IF st[key] = NoItem
    THEN get_miss(st, pend, key, t)
    ELSE get_found(st[key], st, pend, key, t)

\* Job.get from the item self.cache.get(key) returned on
get_after_read(item, st, pend, key, t) ==
    IF item = NoItem
    THEN get_miss(st, pend, key, t)
    ELSE get_found(item, st, pend, key, t)

\* Job.get
get(st, pend, key, t) == get_after_read(st[key], st, pend, key, t)

\* Job.invalidate: expiry, data = item unpacks the stored tuple into two
\* names, which raises ValueError unless the tuple has two elements
invalidate(st, pend, key, t) ==
    LET item == st[key]
    IN  IF item = NoItem
        THEN Branch("ABSENT",
                    { [store |-> st, pending |-> pend, raised |-> FALSE,
                       ret |-> None, events |-> << >>] })
        ELSE IF Len(item) # 2
        THEN Branch("FOUND",
                    { [store |-> st, pending |-> pend, raised |-> TRUE,
                       ret |-> NoReturn, events |-> << >>] })
        ELSE Branch("FOUND",
                    set_then_dispatch(st, pend, key, t, item[2], QUEUED, None))

\* mutant of delete: the item is looked up and left in the store
delete_keeps_item(st, pend, key) ==
    IF st[key] # NoItem
    THEN Branch("FOUND",
                { [store |-> st, pending |-> pend, raised |-> FALSE,
                   ret |-> None, events |-> << <<"cache_delete", << >>>> >>] })
    ELSE Branch("ABSENT",
                { [store |-> st, pending |-> pend, raised |-> FALSE,
                   ret |-> None, events |-> << >>] })

\* Job.delete
delete(st, pend, key) ==
    IF st[key] # NoItem
    THEN Branch("FOUND",
                { [store |-> [st EXCEPT ![key] = NoItem], pending |-> pend,
                   raised |-> FALSE, ret |-> None,
                   events |-> << <<"cache_delete", << >>>> >>] })
    ELSE Branch("ABSENT",
                { [store |-> st, pending |-> pend, raised |-> FALSE,
                   ret |-> None, events |-> << >>] })

\* how many times a call made one of the named calls
Count(events, names) == Len(SelectSeq(events, LAMBDA e : e[1] \in names))
Fetches(events) == Count(events, {"fetch", "fetch_raise"})
Dispatches(events) == Count(events, {"apply_async", "apply_async_raise"})
Writes(events) == Count(events, {"cache_set", "cache_set_lost"})
Has(events, name) == Count(events, {name}) > 0

\* the record of a call kept in last: before is the key's item at the call
Called(op, key, res) ==
    [op |-> op, key |-> key, before |-> store[key], branch |-> res.branch,
     raised |-> res.raised, ret |-> res.ret, events |-> res.events]

NoCall(op) ==
    [op |-> op, key |-> None, before |-> NoItem, branch |-> None,
     raised |-> FALSE, ret |-> None, events |-> << >>]

\* deleted after a call op on key
NextDeleted(op, key) ==
    [deleted EXCEPT ![key] =
        IF op = "delete" THEN "deleted"
        ELSE IF op \in {"get", "invalidate", "refresh"} THEN "no"
        ELSE IF op = "worker" /\ @ = "deleted" THEN "refreshed"
        ELSE @]

\* whether a call wrote the timeout tuple and had its dispatch accepted
WroteAndDispatched(events) ==
    /\ \E i \in DOMAIN events :
          events[i][1] = "cache_set" /\ QUEUED \in {events[i][2][2], events[i][2][3]}
    /\ Has(events, "apply_async")

\* window after a call op on key with outcome res
NextWindow(op, key, res) ==
    [window EXCEPT ![key] =
        IF op \in {"delete", "invalidate"} \/ res.store[key] = NoItem THEN {}
        ELSE IF op = "get" /\ WroteAndDispatched(res.events)
        THEN {now + refresh_timeout}
        ELSE @]

\* ------------------------------------------------------------- actions

\* no call of Job.key yet; no thread inside Job.get
NoKeyed == [dict_order |-> "insertion", calls |-> << >>]
NoCallers == [c \in Callers |-> [pc |-> "idle", key |-> None, item |-> NoItem,
                                 overtaken |-> {}]]

Init ==
    /\ store = [k \in Keys |-> NoItem]
    /\ pending = [k \in Keys |-> 0]
    /\ now = 0
    /\ fetch_on_miss \in BOOLEAN
    /\ fetch_on_stale_threshold \in ThresholdChoices
    /\ verify_cache_write \in BOOLEAN
    /\ last = NoCall("init")
    /\ deleted = [k \in Keys |-> "no"]
    /\ window = [k \in Keys |-> {}]
    /\ keyed = NoKeyed
    /\ callers = NoCallers

\* what a call leaves behind
Returned(op, key, res) ==
    /\ res.pending[key] <= MaxPending
    /\ store' = res.store
    /\ pending' = res.pending
    /\ last' = Called(op, key, res)
    /\ deleted' = NextDeleted(op, key)
    /\ window' = NextWindow(op, key, res)
    /\ UNCHANGED <<now, config, keyed>>

\* a call made while no thread is inside Job.get
Return(op, key, res) ==
    /\ Returned(op, key, res)
    /\ UNCHANGED callers

\* a caller runs job.get(key)
Get ==
    \E key \in Keys : \E res \in get(store, pending, key, now) :
        Return("get", key, res)

\* a caller runs job.invalidate(key)
Invalidate ==
    \E key \in Keys : \E res \in invalidate(store, pending, key, now) :
        Return("invalidate", key, res)

\* a caller runs job.delete(key)
Delete ==
    \E key \in Keys : \E res \in delete(store, pending, key) :
        Return("delete", key, res)

\* a caller runs job.refresh(key) directly
Refresh ==
    \E key \in Keys :
        \E res \in Branch(None, sync_refresh(store, pending, key, now)) :
            Return("refresh", key, res)

\* a worker runs a dispatched task: tasks.refresh_cache calls refresh, and
\* the task is gone from the queue however the refresh ends
Worker ==
    \E key \in Keys :
        /\ pending[key] > 0
        /\ \E res \in Branch(None,
                 sync_refresh(store, [pending EXCEPT ![key] = @ - 1], key, now)) :
               Return("worker", key, res)

\* time passes between calls
Tick ==
    \E step \in TickSteps :
        /\ now + step <= MaxTime
        /\ now' = now + step
        /\ last' = NoCall("tick")
        /\ window' = [k \in Keys |-> {e \in window[k] : now + step <= e}]
        /\ UNCHANGED <<store, pending, config, deleted, keyed, callers>>

Next == Get \/ Invalidate \/ Delete \/ Refresh \/ Worker \/ Tick

Spec == Init /\ [][Next]_vars

\* ------------------------------------------------- overlapping gets
\* Job.get is not atomic: self.cache.get(key) (base.py:89) and the calls that
\* follow it are separate steps, and another thread may run between them.
\* SpecConc runs get in two steps for each thread of Callers.

\* a thread enters get, once, and reads the cache
GetRead ==
    \E c \in Callers : \E key \in Keys :
        /\ callers[c].pc = "idle"
        /\ callers' = [callers EXCEPT ![c] =
                          [pc |-> "read", key |-> key, item |-> store[key],
                           overtaken |-> {}]]
        /\ UNCHANGED <<store, pending, now, config, last, deleted, window,
                       keyed>>

\* callers after thread c finished its get with outcome res: a thread still
\* between its read and its branch learns nothing of a timeout tuple written
\* meanwhile, the model notes the window that tuple opened
Overtake(c, res) ==
    [d \in Callers |->
        IF d = c THEN [callers[d] EXCEPT !.pc = "done", !.item = NoItem]
        ELSE IF /\ callers[d].pc = "read"
                /\ callers[d].key = callers[c].key
                /\ WroteAndDispatched(res.events)
             THEN [callers[d] EXCEPT !.overtaken = {now + refresh_timeout}]
        ELSE callers[d]]

\* the thread takes its branch on the item it read
GetFinish ==
    \E c \in Callers :
        /\ callers[c].pc = "read"
        /\ \E res \in get_after_read(callers[c].item, store, pending,
                                     callers[c].key, now) :
              /\ Returned("get", callers[c].key, res)
              /\ callers' = Overtake(c, res)

\* the key has no item, or the item a refresh at time 0 wrote
InitConc ==
    /\ store \in [Keys -> {NoItem} \cup {<<expiry(0), FRESH, v>> : v \in Payloads}]
    /\ pending = [k \in Keys |-> 0]
    /\ now = 0
    /\ fetch_on_miss \in BOOLEAN
    /\ fetch_on_stale_threshold \in ThresholdChoices
    /\ verify_cache_write \in BOOLEAN
    /\ last = NoCall("init")
    /\ deleted = [k \in Keys |-> "no"]
    /\ window = [k \in Keys |-> {}]
    /\ keyed = NoKeyed
    /\ callers = NoCallers

NextConc == GetRead \/ GetFinish \/ Worker \/ Tick

SpecConc == InitConc /\ [][NextConc]_vars

\* ------------------------------------------------- refresh, no faults
\* SpecLive keeps the calls whose fetch returns and whose writes the store
\* keeps, issues no invalidate and no delete, and has the task queue run
\* every task it accepted: a task that stays queued is eventually run.

\* whether a call met no fault: fetch returned, the store kept every write
FaultFree(res) ==
    /\ ~Has(res.events, "fetch_raise")
    /\ ~Has(res.events, "cache_set_lost")

GetLive ==
    \E key \in Keys : \E res \in get(store, pending, key, now) :
        FaultFree(res) /\ Return("get", key, res)

WorkerLive ==
    \E key \in Keys :
        /\ pending[key] > 0
        /\ \E res \in Branch(None,
                 sync_refresh(store, [pending EXCEPT ![key] = @ - 1], key, now)) :
               FaultFree(res) /\ Return("worker", key, res)

NextLive == GetLive \/ WorkerLive \/ Tick

SpecLive == Init /\ [][NextLive]_vars /\ WF_vars(WorkerLive)

\* ---------------------------------------------------------- Job.key
\* Job.key and Job.hash are pure: SpecKey calls key on small inputs and keeps
\* the last two calls. A positional tuple is a sequence of values, the keyword
\* arguments are the sequence of <<name, value>> pairs in the order the call
\* supplied them.

\* the most positional arguments of a call
MaxArgs == 1
ArgValues == {"x", "y"}
KwargNames == {"a", "b"}
\* how the interpreter iterates a dict: in insertion order (CPython 3.6 and
\* later) or in the order of its hash table (before)
DictOrders == {"insertion", "hashed"}
\* Job.class_path (base.py:262-264), for the base class
class_path == "cacheback.base.Job"

ArgTuples == UNION { [1..n -> ArgValues] : n \in 0..MaxArgs }

KwargCalls ==
    { kw \in UNION { [1..n -> KwargNames \X ArgValues]
                     : n \in 0..Cardinality(KwargNames) } :
        \A i, j \in DOMAIN kw : kw[i][1] = kw[j][1] => i = j }

\* the name/value pairs of a call, whatever their order
Pairs(kwargs) == { kwargs[i] : i \in DOMAIN kwargs }

\* the slot of a name in the hash table of a dict
slot == [a |-> 2, b |-> 1]

\* the order a dict holding kwargs is iterated in
dict_items(kwargs, order) ==
    IF order = "insertion" THEN kwargs
    ELSE CHOOSE s \in [DOMAIN kwargs -> Pairs(kwargs)] :
            /\ Pairs(s) = Pairs(kwargs)
            /\ \A i, j \in DOMAIN s : i < j => slot[s[i][1]] < slot[s[j][1]]

\* tuple(kwargs.keys()) and tuple(kwargs.values())
kwargs_keys(kwargs, order) ==
    [i \in DOMAIN kwargs |-> dict_items(kwargs, order)[i][1]]
kwargs_values(kwargs, order) ==
    [i \in DOMAIN kwargs |-> dict_items(kwargs, order)[i][2]]

\* str of a tuple of strings, character group by character group:
\* (), ('x',), ('x', 'y')
RECURSIVE str_items(_)
str_items(value) ==
    IF Len(value) = 0 THEN << >>
    ELSE IF Len(value) = 1 THEN <<"'", value[1], "'">>
    ELSE <<"'", value[1], "'", ", ">> \o str_items(Tail(value))

str(value) ==
    IF Len(value) = 1 THEN <<"(">> \o str_items(value) \o <<",", ")">>
    ELSE <<"(">> \o str_items(value) \o <<")">>

\* to_bytestring of a tuple: neither text nor bytes, so str(value) encoded
to_bytestring(value) == str(value)

\* Job.hash: the md5 digest, taken as free of collisions on these inputs
hash(value) == [md5 |-> to_bytestring(value)]

\* Job.key
key(args, kwargs, order) ==
    IF Len(args) = 0 /\ Len(kwargs) = 0 THEN <<class_path>>
    ELSE IF Len(args) # 0 /\ Len(kwargs) = 0
         THEN <<class_path, ":", hash(args)>>
    ELSE <<class_path, ":", hash(args),
           ":", hash(kwargs_keys(kwargs, order)),
           ":", hash(kwargs_values(kwargs, order))>>

\* the record of a call of key
KeyCalled(args, kwargs) ==
    [args |-> args, kwargs |-> kwargs,
     key |-> key(args, kwargs, keyed.dict_order)]

InitKey ==
    /\ store = [k \in Keys |-> NoItem]
    /\ pending = [k \in Keys |-> 0]
    /\ now = 0
    /\ fetch_on_miss = TRUE
    /\ fetch_on_stale_threshold = {}
    /\ verify_cache_write = FALSE
    /\ last = NoCall("init")
    /\ deleted = [k \in Keys |-> "no"]
    /\ window = [k \in Keys |-> {}]
    /\ keyed \in {[dict_order |-> o, calls |-> << >>] : o \in DictOrders}
    /\ callers = NoCallers

\* a caller runs job.key(*args, **kwargs); the call before it is kept
Key ==
    \E args \in ArgTuples : \E kwargs \in KwargCalls :
        /\ keyed' = [keyed EXCEPT !.calls =
                        IF @ = << >> THEN <<KeyCalled(args, kwargs)>>
                        ELSE <<@[Len(@)], KeyCalled(args, kwargs)>>]
        /\ UNCHANGED <<store, pending, now, config, last, deleted, window,
                       callers>>

NextKey == Key

SpecKey == InitKey /\ [][NextKey]_vars

\* ------------------------------------------------------------ claims
\* Every claim is read off last, the record of the call just made: before is
\* the key's item when the call started, store[last.key] what it left.

\* the item of the called key after the call
After == store[last.key]

\* the n-th call the call made, and the value it carried
EventName(n) == IF n <= Len(last.events) THEN last.events[n][1] ELSE None
EventArg(n) == last.events[n][2]

\* an item as refresh writes it for a fetched value: fresh, with a payload
RefreshWritten(item) ==
    /\ item # NoItem
    /\ item[2] = FRESH
    /\ item[3] \in Payloads

\* C1: a get on a key whose item was written by refresh with value V, at a
\* time not after its expiry, returns V, calls fetch zero times, dispatches
\* nothing and leaves the item as it was.
C1_FreshGetReturnsValue ==
    (/\ last.op = "get"
     /\ RefreshWritten(last.before)
     /\ now - last.before[1] <= 0)
    => /\ ~last.raised
       /\ last.ret = last.before[3]
       /\ Fetches(last.events) = 0
       /\ Dispatches(last.events) = 0
       /\ After = last.before

\* C2: a get on a key with no item, fetch_on_miss true, whose fetch returns
\* and whose write the store keeps, calls fetch exactly once, returns the
\* fetched value, dispatches nothing and leaves the item
\* (call time + lifetime, FRESH, fetched value).
C2_MissSyncFetch ==
    (/\ last.op = "get"
     /\ last.before = NoItem
     /\ fetch_on_miss
     /\ EventName(1) = "fetch"
     /\ EventName(2) = "cache_set")
    => /\ ~last.raised
       /\ last.ret = EventArg(1)[1]
       /\ Fetches(last.events) = 1
       /\ Dispatches(last.events) = 0
       /\ After = <<now + lifetime, FRESH, EventArg(1)[1]>>

C2_Witness ==
    /\ last.op = "get"
    /\ last.before = NoItem
    /\ fetch_on_miss
    /\ last.events = << <<"fetch", <<"v1">>>>,
                        <<"cache_set", <<now + lifetime, FRESH, "v1">>>> >>
    /\ last.ret = "v1"
    /\ now > 0

\* C3: a get on a key with no item and fetch_on_miss false (the store keeps
\* the write, the dispatch is accepted) returns empty() without calling
\* fetch, leaves the placeholder (now + refresh_timeout, QUEUED, empty()) and
\* dispatches exactly once.
C3_MissAsyncPlaceholder ==
    (/\ last.op = "get"
     /\ last.before = NoItem
     /\ ~fetch_on_miss
     /\ EventName(1) = "cache_set"
     /\ EventName(2) = "apply_async")
    => /\ ~last.raised
       /\ last.ret = empty
       /\ Fetches(last.events) = 0
       /\ Dispatches(last.events) = 1
       /\ After = <<now + refresh_timeout, QUEUED, empty>>

\* C4: a get on a stale item (expiry, FRESH, V) with no stale threshold (the
\* store keeps the write, the dispatch is accepted) returns V, dispatches
\* exactly once and leaves (now + refresh_timeout, QUEUED, V).
C4_StaleAsyncRewrite ==
    (/\ last.op = "get"
     /\ RefreshWritten(last.before)
     /\ now - last.before[1] > 0
     /\ fetch_on_stale_threshold = {}
     /\ EventName(1) = "cache_set"
     /\ EventName(2) = "apply_async")
    => /\ ~last.raised
       /\ last.ret = last.before[3]
       /\ Dispatches(last.events) = 1
       /\ After = <<now + refresh_timeout, QUEUED, last.before[3]>>

\* C5: invalidate on a key that has an item completes without error, leaves
\* (now + refresh_timeout, QUEUED, the payload it had) and dispatches once;
\* on a key with no item it changes nothing and dispatches nothing.
C5_Invalidate ==
    last.op = "invalidate"
    => IF last.before = NoItem
       THEN After = NoItem /\ last.events = << >> /\ ~last.raised
       ELSE /\ ~last.raised
            /\ Dispatches(last.events) = 1
            /\ (EventName(1) = "cache_set" /\ EventName(2) = "apply_async"
                => After = <<now + refresh_timeout, QUEUED, last.before[3]>>)

\* C6: delete removes the key's item, calls no fetch and dispatches nothing,
\* leaves the store as it was when the key had no item, and the get that
\* follows it at once on that key takes a MISS branch.
C6_DeleteThenMiss ==
    [][ /\ last'.op = "delete"
           => /\ store'[last'.key] = NoItem
              /\ \A k \in Keys \ {last'.key} : store'[k] = store[k]
              /\ store[last'.key] = NoItem => store' = store
              /\ Fetches(last'.events) = 0
              /\ Dispatches(last'.events) = 0
              /\ pending' = pending
              /\ ~last'.raised
        /\ (last.op = "delete" /\ last'.op = "get" /\ last'.key = last.key)
           => last'.branch \in {"MISS_SYNC", "MISS_ASYNC"} ]_vars

C6_Witness ==
    /\ last.op = "delete"
    /\ last.before # NoItem
    /\ After = NoItem
    /\ last.events = << <<"cache_delete", << >>>> >>

\* C7: when the dispatch raises during a get, no exception reaches the
\* caller, whatever the fallback refresh does, and the get returns empty()
\* on a miss and, on a stale item that refresh wrote, the payload of it.
C7_DispatchFailureSwallowed ==
    (last.op = "get" /\ Has(last.events, "apply_async_raise"))
    => /\ ~last.raised
       /\ last.before = NoItem => last.ret = empty
       /\ RefreshWritten(last.before) => last.ret = last.before[3]

\* C8: when the dispatch raises, async_refresh makes exactly one synchronous
\* refresh attempt, right after the failed dispatch; if its fetch returns and
\* the store keeps the write, the key's item is (now + lifetime, FRESH,
\* fetched value), in place of the item written before the dispatch.
C8_FailoverRefresh ==
    Has(last.events, "apply_async_raise")
    => /\ EventName(1) \in {"cache_set", "cache_set_lost"}
       /\ EventArg(1)[1] = now + refresh_timeout
       /\ EventName(2) = "apply_async_raise"
       /\ EventName(3) \in {"fetch", "fetch_raise"}
       /\ Fetches(last.events) = 1
       /\ Dispatches(last.events) = 1
       /\ Writes(last.events) <= 2
       /\ (EventName(3) = "fetch" /\ EventName(4) = "cache_set")
          => /\ After = <<now + lifetime, FRESH, EventArg(3)[1]>>
             /\ After # EventArg(1)

C8_Witness ==
    /\ last.op = "get"
    /\ last.before # NoItem
    /\ last.events = << <<"cache_set", <<now + refresh_timeout,
                                         last.before[2], QUEUED>>>>,
                        <<"apply_async_raise", << >>>>,
                        <<"fetch", <<"v2">>>>,
                        <<"cache_set", <<now + lifetime, FRESH, "v2">>>> >>
    /\ After = <<now + lifetime, FRESH, "v2">>

\* C9: with write verification on, a synchronous refresh (refresh itself, or
\* get on a miss or past the stale threshold) whose fetched payload is not
\* None and is not the payload read back from the store raises to its
\* caller; the placeholder write of get on a miss, whose payload is empty(),
\* never raises, whatever the store did with the write.
C9_WriteVerification ==
    verify_cache_write
    => /\ (/\ \/ last.op = "refresh"
              \/ last.op = "get" /\ last.branch \in {"MISS_SYNC", "STALE_SYNC"}
           /\ EventName(1) = "fetch"
           /\ EventArg(1)[1] # None
           /\ cache_read_default(store, last.key)[3] # EventArg(1)[1])
          => last.raised
       /\ (last.op = "get" /\ last.branch = "MISS_ASYNC") => ~last.raised

\* C10: a fetch that raises in a synchronous refresh (refresh itself, get on
\* a miss with fetch_on_miss, get past the stale threshold) raises to the
\* caller, dispatches nothing and leaves the key's item as it was.
C10_FetchRaises ==
    (/\ \/ last.op = "refresh"
        \/ last.op = "get" /\ last.branch \in {"MISS_SYNC", "STALE_SYNC"}
     /\ Has(last.events, "fetch_raise"))
    => /\ last.raised
       /\ last.events = << <<"fetch_raise", << >>>> >>
       /\ Dispatches(last.events) = 0
       /\ After = last.before

C10_Witness ==
    /\ last.op = "get"
    /\ last.branch = "STALE_SYNC"
    /\ last.raised
    /\ Has(last.events, "fetch_raise")
    /\ last.before # NoItem
    /\ After = last.before

\* C11: with fetch_on_stale_threshold = T, a get on a stale item that
\* refresh wrote refreshes synchronously (one fetch in the caller, its value
\* returned, the item left (now + lifetime, FRESH, fetched), no dispatch)
\* exactly when delta > T - lifetime, and otherwise returns the stale payload,
\* rewrites the item to (now + refresh_timeout, QUEUED, payload) and
\* dispatches once; with no threshold it never takes the synchronous branch.
C11_StaleThreshold ==
    (/\ last.op = "get"
     /\ RefreshWritten(last.before)
     /\ now - last.before[1] > 0)
    => IF \E T \in fetch_on_stale_threshold :
              now - last.before[1] > T - lifetime
       THEN /\ last.branch = "STALE_SYNC"
            /\ Fetches(last.events) = 1
            /\ Dispatches(last.events) = 0
            /\ (EventName(1) = "fetch" /\ EventName(2) = "cache_set")
               => /\ last.ret = EventArg(1)[1]
                  /\ After = <<now + lifetime, FRESH, EventArg(1)[1]>>
       ELSE /\ last.branch = "STALE_ASYNC"
            /\ (EventName(1) = "cache_set" /\ EventName(2) = "apply_async")
               => /\ last.ret = last.before[3]
                  /\ Fetches(last.events) = 0
                  /\ Dispatches(last.events) = 1
                  /\ After = <<now + refresh_timeout, QUEUED, last.before[3]>>

\* C13 as stated: a get on an item with expiry <= now takes the hit path and
\* dispatches nothing.
C13_HitWhenExpiryNotAfterNow ==
    (last.op = "get" /\ last.before # NoItem /\ last.before[1] <= now)
    => last.branch = "HIT" /\ Dispatches(last.events) = 0

\* C13 as amended: a get on an item with expiry >= now (delta <= 0) takes
\* the hit path: it makes no fetch, no store write and no dispatch and
\* leaves the item as it was; a get on an item with expiry < now takes a
\* stale branch instead.
C13_HitWhenNotExpired ==
    (last.op = "get" /\ last.before # NoItem)
    => IF last.before[1] >= now
       THEN /\ last.branch = "HIT"
            /\ ~last.raised
            /\ last.events = << >>
            /\ After = last.before
       ELSE last.branch \in {"STALE_SYNC", "STALE_ASYNC"}

C13_Witness ==
    /\ last.op = "get"
    /\ last.before # NoItem
    /\ last.before[1] = now
    /\ last.branch = "HIT"
    /\ now > 0

\* C14: every item in the store is a triple (expiry, status, payload) with
\* status FRESH or QUEUED and a payload (a fetched value or empty()) in the
\* payload slot, whichever operation wrote it.
C14_ItemLayout ==
    \A k \in Keys :
        store[k] # NoItem
        => /\ Len(store[k]) = 3
           /\ store[k][1] \in Int
           /\ store[k][2] \in {FRESH, QUEUED}
           /\ store[k][3] \in Payloads \cup {None}

\* C15: in every call, each dispatch (accepted or not) comes after a store
\* write of that call whose tuple carries QUEUED and the expiry
\* now + refresh_timeout, and no store write of the timeout tuple follows it.
C15_WriteBeforeDispatch ==
    \A i \in DOMAIN last.events :
        last.events[i][1] \in {"apply_async", "apply_async_raise"}
        => /\ \E j \in 1..(i - 1) :
                /\ last.events[j][1] \in {"cache_set", "cache_set_lost"}
                /\ last.events[j][2][1] = now + refresh_timeout
                /\ QUEUED \in {last.events[j][2][2], last.events[j][2][3]}
           /\ \A j \in DOMAIN last.events :
                (/\ last.events[j][1] \in {"cache_set", "cache_set_lost"}
                 /\ last.events[j][2][1] = now + refresh_timeout)
                => j < i

C15_Witness ==
    /\ last.op = "get"
    /\ last.branch = "STALE_ASYNC"
    /\ EventName(1) = "cache_set"
    /\ EventArg(1)[1] = now + refresh_timeout
    /\ EventName(2) = "apply_async"
    /\ pending[last.key] > 0
    /\ After = EventArg(1)

\* an item as get writes it before a dispatch: the timeout tuple
QueuedWritten(item) ==
    /\ item # NoItem
    /\ QUEUED \in {item[2], item[3]}

\* C18: a get on a QUEUED item (a placeholder or a rewritten stale item)
\* later than the item's expiry takes a stale branch and starts a refresh:
\* a fetch in the caller past the stale threshold, otherwise the write of a
\* new timeout and a dispatch, unless the store loses that write and the
\* verification raises.
C18_NoLimbo ==
    (/\ last.op = "get"
     /\ QueuedWritten(last.before)
     /\ now > last.before[1])
    => /\ last.branch \in {"STALE_SYNC", "STALE_ASYNC"}
       /\ last.branch = "STALE_SYNC" => Fetches(last.events) = 1
       /\ last.branch = "STALE_ASYNC"
          => /\ EventName(1) \in {"cache_set", "cache_set_lost"}
             /\ EventArg(1)[1] = now + refresh_timeout
             /\ ~last.raised => Dispatches(last.events) = 1
             /\ EventName(1) = "cache_set" => Dispatches(last.events) = 1

C18_Witness ==
    /\ last.op = "get"
    /\ last.before = <<now - refresh_timeout, None, QUEUED>>
    /\ last.branch = "STALE_ASYNC"
    /\ Has(last.events, "apply_async")
    /\ pending[last.key] > 1

\* C16: once a get at time t has written the timeout tuple and had its
\* dispatch accepted, every later get on that key up to t + refresh_timeout,
\* with no delete or invalidate of the key and the item not lost by the store
\* in between, is a cache hit: no dispatch and no fetch, whether the
\* dispatched task has run or not.
C16_AntiHammering ==
    [][ (/\ last'.op = "get"
         /\ window[last'.key] # {}
         /\ \A e \in window[last'.key] : now <= e)
        => /\ last'.branch = "HIT"
           /\ Dispatches(last'.events) = 0
           /\ Fetches(last'.events) = 0
           /\ pending' = pending ]_vars

C16_Witness ==
    /\ last.op = "get"
    /\ last.branch = "HIT"
    /\ window[last.key] = {now}
    /\ last.before = <<now, None, QUEUED>>
    /\ pending[last.key] = 1

\* C20 as stated: after delete(k) has returned, and until a get, an
\* invalidate or a refresh is called on k, the store holds no item for k.
C20_DeletedStaysDeleted ==
    \A k \in Keys : deleted[k] # "no" => store[k] = NoItem

\* C20 as amended: after delete(k) has returned, the store holds no item for
\* k until a get, an invalidate or a refresh is called on k or a refresh task
\* dispatched for k before the delete runs; such a task is not cancelled,
\* and when its fetch returns and the store keeps the write it leaves
\* (now + lifetime, FRESH, fetched) for the deleted key.
C20_DeletedUntilTaskRuns ==
    /\ \A k \in Keys : deleted[k] = "deleted" => store[k] = NoItem
    /\ (/\ last.op = "worker"
        /\ deleted[last.key] = "refreshed"
        /\ EventName(1) = "fetch"
        /\ EventName(2) = "cache_set")
       => After = <<now + lifetime, FRESH, EventArg(1)[1]>>

C20_Witness ==
    /\ last.op = "worker"
    /\ deleted[last.key] = "refreshed"
    /\ last.before = NoItem
    /\ After = <<now + lifetime, FRESH, "v1">>

\* C12: key is deterministic, and two calls with the same positional
\* arguments and the same keyword name/value pairs, supplied in any order,
\* give the same key.
C12_KeyOrderIndependent ==
    Len(keyed.calls) = 2 =>
        LET first == keyed.calls[1]
            second == keyed.calls[2]
        IN  (/\ first.args = second.args
             /\ Pairs(first.kwargs) = Pairs(second.kwargs))
            => first.key = second.key

\* C12, the first half alone: identical inputs give the identical key
C12_KeyDeterministic ==
    Len(keyed.calls) = 2 =>
        LET first == keyed.calls[1]
            second == keyed.calls[2]
        IN  (first.args = second.args /\ first.kwargs = second.kwargs)
            => first.key = second.key

\* whether get, on this item at time t, takes an asynchronous branch
ReadsAsync(item, t) ==
    IF item = NoItem THEN ~should_missing_item_be_fetched_synchronously
    ELSE /\ t - item[1] > 0
         /\ ~should_stale_item_be_fetched_synchronously(t - item[1])

\* the thread that takes its branch in this step, if any
Finishing(c) == callers[c].pc = "read" /\ callers'[c].pc = "done"

\* whether a call on an asynchronous branch ended in its cache_set, which
\* raised on a write the store lost
WriteRaised(call) ==
    call.raised /\ Dispatches(call.events) = 0 /\ Fetches(call.events) = 0

\* C17: a get that read the store (a miss with fetch_on_miss off, or a stale
\* item) before another get on the key wrote its timeout tuple still
\* dispatches, inside that tuple's window, unless its own write raises: the
\* other's tuple does not stop it, and an accepted dispatch adds a second
\* task for the key.
C17_DuplicateDispatch ==
    [][ \A c \in Callers :
          (/\ Finishing(c)
           /\ callers[c].overtaken # {}
           /\ \A e \in callers[c].overtaken : now <= e
           /\ ReadsAsync(callers[c].item, now)
           /\ ~WriteRaised(last'))
          => /\ last'.branch \in {"MISS_ASYNC", "STALE_ASYNC"}
             /\ Dispatches(last'.events) = 1
             /\ Has(last'.events, "apply_async")
                => pending'[callers[c].key] = pending[callers[c].key] + 1 ]_vars

C17_Witness ==
    \E c \in Callers :
        /\ callers[c].pc = "done"
        /\ callers[c].overtaken # {}
        /\ \A e \in callers[c].overtaken : now <= e
        /\ \A d \in Callers : callers[d].pc = "done"
        /\ last.op = "get"
        /\ last.key = callers[c].key
        /\ Has(last.events, "apply_async")
        /\ QueuedWritten(last.before)
        /\ last.before[1] >= now
        /\ pending[last.key] = 2

\* the worker has just written the key's item: fresh, the value its fetch
\* returned, expiring a lifetime after the write
WorkerRefreshed(k) ==
    /\ last.op = "worker"
    /\ last.key = k
    /\ EventName(1) = "fetch"
    /\ store[k] = <<now + lifetime, FRESH, EventArg(1)[1]>>

\* C19, the first half: with no faults and a fair task queue, a key whose
\* item carries QUEUED eventually holds the item a worker wrote.
C19_QueuedLeadsToFresh ==
    \A k \in Keys : QueuedWritten(store[k]) ~> WorkerRefreshed(k)

\* C19, the second half: a get on the item a refresh wrote, not after its
\* expiry, returns the fetched value.
C19_GetReturnsFetched ==
    (/\ last.op = "get"
     /\ RefreshWritten(last.before)
     /\ now <= last.before[1])
    => last.ret = last.before[3]

\* C19: with every dispatched refresh run in the end, no fetch or store
\* fault and no invalidate or delete, a key whose item is QUEUED eventually
\* holds (worker time + lifetime, FRESH, fetched value), and a get after
\* that and before the expiry returns the fetched value.
C19_RefreshLiveness ==
    /\ C19_QueuedLeadsToFresh
    /\ []C19_GetReturnsFetched

====
